---- MODULE Spec2Model ----
(***************************************************************************)
(* Model of src/src/cluster_context.rs: the ClusterContext accessors of a  *)
(* waPC guest policy.  A call runs host_call, decodes the returned bytes   *)
(* as a List<K>, filters the items by the NamespaceFilter and, for the     *)
(* single-item accessors, finds the first item with the given name.        *)
(***************************************************************************)
EXTENDS Integers, Sequences, FiniteSets, TLC

VARIABLES pc, op, kind, filter, name, raw, items, listed, result,
          requests, trace, remembered

vars == <<pc, op, kind, filter, name, raw, items, listed, result,
          requests, trace, remembered>>

(* ---------------- bounds ---------------- *)
MaxItems == 2
MaxItemsH == 1

(* ---------------- values ---------------- *)
None == <<>>
Some(v) == <<v>>
Option(S) == {None} \cup {Some(v) : v \in S}

SeqUpTo(S, n) == UNION {[1..k -> S] : k \in 0..n}

Kinds == {"namespaces", "services", "ingresses"}
NamespacedKinds == {"services", "ingresses"}
Names == {"a", "b"}
NamespaceNames == {"ns1", "ns2", "NS1"}
HostErrors == {"kind not supported", "transport failure"}

AllNamespaces == [variant |-> "AllNamespaces", ns |-> ""]
Namespace(n) == [variant |-> "Namespace", ns |-> n]
NamespaceFilter == {AllNamespaces} \cup {Namespace(n) : n \in NamespaceNames}

Item(n, ns) == [ok |-> TRUE, name |-> n, namespace |-> ns]
GoodEntries == {Item(n, ns) : n \in Option(Names), ns \in Option(NamespaceNames)}
BadEntry == [ok |-> FALSE, name |-> None, namespace |-> None]
Entries == GoodEntries \cup {BadEntry}
HistEntries == {Item(Some("a"), Some("ns1")), Item(Some("b"), Some("ns2")),
                Item(Some("a"), None), BadEntry}

HostError(m) == [err |-> Some(m), utf8 |-> TRUE, json |-> "list", items |-> <<>>]
InvalidUtf8 == [err |-> None, utf8 |-> FALSE, json |-> "malformed", items |-> <<>>]
MalformedJson == [err |-> None, utf8 |-> TRUE, json |-> "malformed", items |-> <<>>]
WrongEnvelope == [err |-> None, utf8 |-> TRUE, json |-> "mismatch", items |-> <<>>]
ListDocument(s) == [err |-> None, utf8 |-> TRUE, json |-> "list", items |-> s]

Responses(entries, n) ==
    {HostError(m) : m \in HostErrors}
      \cup {InvalidUtf8, MalformedJson, WrongEnvelope}
      \cup {ListDocument(s) : s \in SeqUpTo(entries, n)}

NoResponse == ListDocument(<<>>)

AllResponses == Responses(Entries, MaxItems)
HistResponses == Responses(HistEntries, MaxItemsH)

NoName == ""
Args(ops, filters, names) ==
    {[op |-> "list", kind |-> k, filter |-> f, name |-> NoName] :
        k \in Kinds, f \in filters}
      \cup {[op |-> o, kind |-> k, filter |-> f, name |-> n] :
        o \in ops \ {"list"}, k \in Kinds, f \in filters, n \in names}
AllArgs == Args({"list", "get"}, NamespaceFilter, Names)
HistArgs == Args({"list", "get"}, {AllNamespaces, Namespace("ns1")}, {"a"})

(* ---------------- results ---------------- *)
OkResult(v) == [tag |-> "Ok", value |-> v, ctx |-> "", cause |-> ""]
ErrResult(c, e) == [tag |-> "Err", value |-> <<>>, ctx |-> c, cause |-> e]
NoResult == [tag |-> "Pending", value |-> <<>>, ctx |-> "", cause |-> ""]

Utf8Error == "invalid utf-8 sequence"
SyntaxError == "expected value"
MissingItems == "missing field items"
InvalidItem == "invalid type"
DecodeCauses == {Utf8Error, SyntaxError, MissingItems, InvalidItem}

BindingContext(k) ==
    CASE k = "ingresses" -> "failed to call ingresses binding"
      [] k = "namespaces" -> "failed to call namespaces binding"
      [] k = "services" -> "failed to call services binding"

UnmarshalContext(k) ==
    CASE k = "ingresses" -> "failed to unmarshal ingress list"
      [] k = "namespaces" -> "failed to unmarshal namespace list"
      [] k = "services" -> "failed to unmarshal service list"

(* ---------------- the cross-boundary request ---------------- *)
HostCallRequestCopied(k) ==
    [binding |-> "kubernetes", namespace |-> "ingresses",
     operation |-> "list", payload |-> <<>>]

HostCallRequest(k) ==
    [binding |-> "kubernetes", namespace |-> k,
     operation |-> "list", payload |-> <<>>]

BridgeErrorSwallowed(k, err) == OkResult(<<>>)

BridgeErrorResult(k, err) == ErrResult(BindingContext(k), err)

(* ---------------- decoding ---------------- *)
IsOk(e) == e.ok

DecodeListLenient(k, bytes) ==
    IF ~bytes.utf8 THEN ErrResult("", Utf8Error)
    ELSE IF bytes.json = "malformed" THEN ErrResult(UnmarshalContext(k), SyntaxError)
    ELSE IF bytes.json = "mismatch" THEN ErrResult(UnmarshalContext(k), MissingItems)
    ELSE OkResult(SelectSeq(bytes.items, IsOk))

DecodeList(k, bytes) ==
    IF ~bytes.utf8 THEN ErrResult("", Utf8Error)
    ELSE IF bytes.json = "malformed" THEN ErrResult(UnmarshalContext(k), SyntaxError)
    ELSE IF bytes.json = "mismatch" THEN ErrResult(UnmarshalContext(k), MissingItems)
    ELSE IF \E i \in 1..Len(bytes.items) : ~bytes.items[i].ok
         THEN ErrResult(UnmarshalContext(k), InvalidItem)
    ELSE OkResult(bytes.items)

(* ---------------- filtering ---------------- *)
FilterMatchUnnamespaced(item, f) ==
    IF f.variant = "AllNamespaces" THEN TRUE
    ELSE IF item.namespace # None THEN f.ns = item.namespace[1]
    ELSE TRUE

FilterMatchNeedsNamespace(item, f) ==
    IF item.namespace # None
    THEN f.variant = "AllNamespaces" \/ f.ns = item.namespace[1]
    ELSE FALSE

FilterMatch(item, f) ==
    IF f.variant = "AllNamespaces" THEN TRUE
    ELSE IF item.namespace # None THEN f.ns = item.namespace[1]
    ELSE FALSE

RECURSIVE FilterItemsReversed(_, _)
FilterItemsReversed(s, f) ==
    IF s = <<>> THEN <<>>
    ELSE IF FilterMatch(Head(s), f)
         THEN FilterItemsReversed(Tail(s), f) \o <<Head(s)>>
         ELSE FilterItemsReversed(Tail(s), f)

RECURSIVE FilterItems(_, _)
FilterItems(s, f) ==
    IF s = <<>> THEN <<>>
    ELSE IF FilterMatch(Head(s), f)
         THEN <<Head(s)>> \o FilterItems(Tail(s), f)
         ELSE FilterItems(Tail(s), f)

(* ---------------- find by name ---------------- *)
NameMatchesOrAbsent(item, n) == item.name = Some(n) \/ item.name = None

NameMatches(item, n) == item.name = Some(n)

RECURSIVE FindLast(_, _)
FindLast(s, n) ==
    IF s = <<>> THEN None
    ELSE IF NameMatches(s[Len(s)], n) THEN Some(s[Len(s)])
    ELSE FindLast(SubSeq(s, 1, Len(s) - 1), n)

RECURSIVE Find(_, _)
Find(s, n) ==
    IF s = <<>> THEN None
    ELSE IF NameMatches(Head(s), n) THEN Some(Head(s))
    ELSE Find(Tail(s), n)

(* ---------------- the state machine ---------------- *)
Init ==
    /\ pc = "idle"
    /\ op = "list"
    /\ kind = "namespaces"
    /\ filter = AllNamespaces
    /\ name = NoName
    /\ raw = NoResponse
    /\ items = <<>>
    /\ listed = <<>>
    /\ result = NoResult
    /\ requests = <<>>
    /\ trace = <<>>
    /\ remembered = None

\* A policy invokes one accessor: ingresses/namespaces/services (op "list")
\* or ingress/namespace/service (op "get").
Call(args) ==
    /\ pc = "idle"
    /\ \E a \in args :
         /\ op' = a.op
         /\ kind' = a.kind
         /\ filter' = a.filter
         /\ name' = a.name
    /\ pc' = "host_call"
    /\ UNCHANGED <<raw, items, listed, result, requests, trace, remembered>>

\* guest::host_call("kubernetes", K, "list", &Vec::new()).map_err(...)
HostCall(pool) ==
    /\ pc = "host_call"
    /\ \E resp \in pool :
         /\ requests' = Append(requests, [req |-> HostCallRequest(kind), resp |-> resp])
         /\ raw' = resp
         /\ IF resp.err # None
            THEN /\ result' = BridgeErrorResult(kind, resp.err[1])
                 /\ pc' = "done"
            ELSE /\ result' = result
                 /\ pc' = "decode"
    /\ trace' = Append(trace, "request")
    /\ UNCHANGED <<op, kind, filter, name, items, listed, remembered>>

AfterList(o) == IF o = "list" THEN "done" ELSE "find"

\* The accumulating variant keeps the items of an earlier call of the kind.
DecodeAccumulating ==
    /\ pc = "decode"
    /\ trace' = Append(trace, "decode")
    /\ LET d == DecodeList(kind, raw)
           stale == IF remembered # None /\ remembered[1].kind = kind
                       /\ remembered[1].result.tag = "Ok"
                    THEN remembered[1].result.value ELSE <<>>
       IN IF d.tag = "Err"
          THEN /\ result' = d
               /\ pc' = "done"
               /\ UNCHANGED <<items, listed>>
          ELSE /\ items' = stale \o d.value
               /\ IF kind \in NamespacedKinds
                  THEN /\ pc' = "filter"
                       /\ UNCHANGED <<listed, result>>
                  ELSE /\ listed' = stale \o d.value
                       /\ pc' = AfterList(op)
                       /\ result' = IF op = "list" THEN OkResult(stale \o d.value) ELSE result
    /\ UNCHANGED <<op, kind, filter, name, raw, requests, remembered>>

\* std::str::from_utf8(..)? then serde_json::from_str::<List<K>>(..)?.items
Decode ==
    /\ pc = "decode"
    /\ trace' = Append(trace, "decode")
    /\ LET d == DecodeList(kind, raw)
       IN IF d.tag = "Err"
          THEN /\ result' = d
               /\ pc' = "done"
               /\ UNCHANGED <<items, listed>>
          ELSE /\ items' = d.value
               /\ IF kind \in NamespacedKinds
                  THEN /\ pc' = "filter"
                       /\ UNCHANGED <<listed, result>>
                  ELSE /\ listed' = d.value
                       /\ pc' = AfterList(op)
                       /\ result' = IF op = "list" THEN OkResult(d.value) ELSE result
    /\ UNCHANGED <<op, kind, filter, name, raw, requests, remembered>>

\* .iter().filter_map(..).collect()
Filter ==
    /\ pc = "filter"
    /\ trace' = Append(trace, "filter")
    /\ listed' = FilterItems(items, filter)
    /\ pc' = AfterList(op)
    /\ result' = IF op = "list" THEN OkResult(FilterItems(items, filter)) ELSE result
    /\ UNCHANGED <<op, kind, filter, name, raw, items, requests, remembered>>

\* .into_iter().find(|x| x.metadata.name == Some(name.to_string()))
FindStep ==
    /\ pc = "find"
    /\ trace' = Append(trace, "find")
    /\ result' = OkResult(Find(listed, name))
    /\ pc' = "done"
    /\ UNCHANGED <<op, kind, filter, name, raw, items, listed, requests, remembered>>

CallRecord ==
    [op |-> op, kind |-> kind, filter |-> filter, name |-> name,
     response |-> requests, result |-> result]

ResetLocals ==
    /\ pc' = "idle"
    /\ op' = "list"
    /\ kind' = "namespaces"
    /\ filter' = AllNamespaces
    /\ name' = NoName
    /\ raw' = NoResponse
    /\ items' = <<>>
    /\ listed' = <<>>
    /\ result' = NoResult
    /\ requests' = <<>>
    /\ trace' = <<>>

\* The call returns to the policy; nothing of it is kept.
Return ==
    /\ pc = "done"
    /\ ResetLocals
    /\ UNCHANGED remembered

\* The same, with the observer keeping the finished call for comparison.
ReturnRemember ==
    /\ pc = "done"
    /\ ResetLocals
    /\ remembered' = Some(CallRecord)

Next ==
    \/ Call(AllArgs)
    \/ HostCall(AllResponses)
    \/ Decode
    \/ Filter
    \/ FindStep
    \/ Return

Spec == Init /\ [][Next]_vars

NextH ==
    \/ Call(HistArgs)
    \/ HostCall(HistResponses)
    \/ Decode
    \/ Filter
    \/ FindStep
    \/ Return
    \/ ReturnRemember

SpecH == Init /\ [][NextH]_vars

(* ---------------- observations used by the properties ---------------- *)
Did(e) == \E i \in 1..Len(trace) : trace[i] = e

\* The host's reply to the current call's own request.
Reply == requests[1].resp

\* The reply is valid UTF-8 holding a list envelope whose items all decode.
WellFormed(r) ==
    /\ r.err = None
    /\ r.utf8
    /\ r.json = "list"
    /\ \A i \in 1..Len(r.items) : r.items[i].ok

Satisfies(item, f) == f.variant = "Namespace" => item.namespace = Some(f.ns)

Keeps(item) ==
    \/ kind \notin NamespacedKinds
    \/ filter.variant = "AllNamespaces"
    \/ item.namespace = Some(filter.ns)

(* ---------------- properties ---------------- *)

\* C1: for Service and Ingress, whenever the host response decodes, the list
\* call succeeds and every returned item satisfies the filter: under
\* Namespace(n) its namespace is present and equal to n; an item without a
\* namespace is never returned under Namespace(n) and does not fail the call.
C1_ListSatisfiesFilter ==
    (pc = "done" /\ op = "list" /\ kind \in NamespacedKinds /\ WellFormed(Reply))
      => /\ result.tag = "Ok"
         /\ \A i \in 1..Len(result.value) : Satisfies(result.value[i], filter)

C1_Witness ==
    /\ pc = "done" /\ op = "list" /\ kind = "ingresses"
    /\ filter = Namespace("ns1")
    /\ Reply = ListDocument(<<Item(Some("a"), None), Item(Some("b"), Some("ns1"))>>)
    /\ result = OkResult(<<Item(Some("b"), Some("ns1"))>>)

\* C2: a successful list result is exactly the order-preserving subsequence
\* of the decoded items that satisfy the filter; with AllNamespaces, and
\* always for the Namespace kind, it is the decoded sequence itself.
C2_ListIsFilteredSubsequence ==
    (pc = "done" /\ op = "list" /\ result.tag = "Ok")
      => /\ result.value = SelectSeq(Reply.items, Keeps)
         /\ (kind \notin NamespacedKinds \/ filter = AllNamespaces)
               => result.value = Reply.items

C2_Witness ==
    /\ pc = "done" /\ op = "list" /\ kind = "services"
    /\ filter = AllNamespaces
    /\ Reply = ListDocument(<<Item(Some("a"), Some("ns1")), Item(Some("b"), Some("ns2"))>>)
    /\ result = OkResult(<<Item(Some("a"), Some("ns1")), Item(Some("b"), Some("ns2"))>>)

\* C3: get returns Some(item) only if item is in the listed sequence with the
\* requested name, and it is the first item of that name in list order.
C3_GetReturnsFirstMatch ==
    (pc = "done" /\ op = "get" /\ result.tag = "Ok" /\ result.value # None)
      => \E i \in 1..Len(listed) :
            /\ listed[i] = result.value[1]
            /\ listed[i].name = Some(name)
            /\ \A j \in 1..(i - 1) : listed[j].name # Some(name)

C3_Witness ==
    /\ pc = "done" /\ op = "get" /\ kind = "services"
    /\ filter = AllNamespaces /\ name = "a"
    /\ listed = <<Item(Some("a"), Some("ns1")), Item(Some("a"), Some("ns2"))>>
    /\ result = OkResult(Some(Item(Some("a"), Some("ns1"))))

\* C4: a successful get returns None if and only if no listed item has the
\* requested name; an item the filter excludes, or whose name is absent, is
\* never matched.
C4_GetNoneIffNoMatch ==
    (pc = "done" /\ op = "get" /\ result.tag = "Ok")
      => /\ (result.value = None)
               <=> (\A i \in 1..Len(listed) : listed[i].name # Some(name))
         /\ \A i \in 1..Len(result.value) :
               /\ result.value[i].name # None
               /\ Keeps(result.value[i])

C4_Witness ==
    /\ pc = "done" /\ op = "get" /\ kind = "services"
    /\ filter = Namespace("ns2") /\ name = "a"
    /\ Reply = ListDocument(<<Item(Some("a"), Some("ns1")), Item(Some("b"), Some("ns2"))>>)
    /\ result = OkResult(None)

\* C5: every call issues exactly one request, before any decoding or
\* filtering; it names "kubernetes", the kind's token and "list", and its
\* payload is empty (the filter is not sent).
C5_ExactlyOneRequest ==
    /\ Len(requests) <= 1
    /\ pc \in {"idle", "host_call"} => (requests = <<>> /\ trace = <<>>)
    /\ pc \in {"decode", "filter", "find", "done"}
         => /\ Len(requests) = 1
            /\ requests[1].req = [binding |-> "kubernetes", namespace |-> kind,
                                  operation |-> "list", payload |-> <<>>]
            /\ trace[1] = "request"
            /\ \A i \in 2..Len(trace) : trace[i] # "request"

C5_Witness ==
    /\ pc = "done" /\ op = "get" /\ kind = "services"
    /\ filter = Namespace("ns1")
    /\ Len(requests) = 1
    /\ result.tag = "Ok"

\* C6: when the boundary call errors the call returns the bridge error that
\* wraps the host's message, with no retry, decoding or filtering; a
\* successful empty result implies a decoded response without matching item.
C6_BridgeErrorPropagates ==
    /\ (pc = "done" /\ Reply.err # None)
         => /\ result.tag = "Err"
            /\ result.ctx = BindingContext(kind)
            /\ result.cause = Reply.err[1]
            /\ trace = <<"request">>
            /\ Len(requests) = 1
    /\ (pc = "done" /\ result.tag = "Ok" /\ result.value = <<>>)
         => /\ WellFormed(Reply)
            /\ \A i \in 1..Len(Reply.items) :
                  ~(/\ Keeps(Reply.items[i])
                    /\ op = "get" => Reply.items[i].name = Some(name))

C6_Witness ==
    /\ pc = "done" /\ op = "list" /\ kind = "services"
    /\ Reply = HostError("transport failure")
    /\ result = ErrResult("failed to call services binding", "transport failure")

\* C7: a response that is not UTF-8, not JSON, not a list envelope, or that
\* holds an item that does not decode, fails the whole call with a decode
\* error; no empty or partial successful result is returned.
C7_DecodeFailureFailsCall ==
    (pc = "done" /\ Reply.err = None /\ ~WellFormed(Reply))
      => /\ result.tag = "Err"
         /\ result.cause \in DecodeCauses
         /\ result.value = <<>>
         /\ ~Did("filter") /\ ~Did("find")

C7_Witness ==
    /\ pc = "done" /\ op = "list" /\ kind = "namespaces"
    /\ Reply = ListDocument(<<Item(Some("a"), None), BadEntry>>)
    /\ result.tag = "Err"

\* C8: every error a caller receives carries context naming the resource
\* kind and the stage (bridge or decode) that failed.
C8_ErrorsNameKindAndStage ==
    (pc = "done" /\ result.tag = "Err")
      => \/ (Reply.err # None /\ result.ctx = BindingContext(kind))
         \/ (Reply.err = None /\ result.ctx = UnmarshalContext(kind))

\* C9: filtering is idempotent: filtering the filtered sequence again by the
\* same filter, or by AllNamespaces, leaves it unchanged.
C9_FilterIdempotent ==
    Did("filter")
      => /\ FilterItems(listed, filter) = listed
         /\ FilterItems(listed, AllNamespaces) = listed

C9_Witness ==
    /\ pc = "done" /\ op = "list" /\ kind = "ingresses"
    /\ filter = Namespace("ns1")
    /\ items = <<Item(Some("a"), Some("ns1")), Item(Some("b"), Some("ns2"))>>
    /\ listed = <<Item(Some("a"), Some("ns1"))>>

\* C10: calls are stateless: a call with the same arguments and the same
\* host response as an earlier call has the same outcome, and it made its
\* own request.
C10_CallsIndependent ==
    (/\ pc = "done"
     /\ remembered # None)
      => /\ Len(requests) = 1
         /\ (/\ remembered[1].op = op
             /\ remembered[1].kind = kind
             /\ remembered[1].filter = filter
             /\ remembered[1].name = name
             /\ remembered[1].response = requests)
               => remembered[1].result = result

C10_Witness ==
    /\ pc = "done"
    /\ remembered # None
    /\ remembered[1] = CallRecord
    /\ op = "list" /\ kind = "services"
    /\ result.tag = "Ok" /\ result.value # <<>>
====
